---------------------------- MODULE Spec2Model ----------------------------
(***************************************************************************)
(* A model of the threat-indicator service of backend/app.py (the Check    *)
(* and Report endpoints) and of the batch tool backend/import_domains.py   *)
(* (import_list and remove_database_duplicates).                           *)
(*                                                                         *)
(* Text is modelled as a sequence of one-character strings, so that the    *)
(* normalizers are computed the way the code computes them.  The store is  *)
(* the four tables the code declares.                                      *)
(***************************************************************************)
EXTENDS Integers, Sequences, FiniteSets, TLC

VARIABLES
    blocked,      \* kind -> set of rows of blocked_domains / blocked_emails
    whitelist,    \* set of rows of whitelisted_items
    reports,      \* set of rows of reported_items
    uniqueValue,  \* does the store enforce UNIQUE on the blocklist value column
    last,         \* the last finished call and its response
    pc,           \* per concurrent reporter: its position in report_item
    req,          \* per concurrent reporter: its request and local variables
    nextId        \* kind -> the next autoincrement id of its blocklist table

vars == <<blocked, whitelist, reports, uniqueValue, last, pc, req, nextId>>

(***************************************************************************)
(* Text helpers: Python's str methods on sequences of characters.          *)
(***************************************************************************)
LowerLetters ==
    <<"a","b","c","d","e","f","g","h","i","j","k","l","m",
      "n","o","p","q","r","s","t","u","v","w","x","y","z">>

UpperLetters ==
    <<"A","B","C","D","E","F","G","H","I","J","K","L","M",
      "N","O","P","Q","R","S","T","U","V","W","X","Y","Z">>

Digits == {"0","1","2","3","4","5","6","7","8","9"}

Range(s) == {s[i] : i \in 1..Len(s)}

LowerSet == Range(LowerLetters)

UpperSet == Range(UpperLetters)

AlphaSet == LowerSet \cup UpperSet

IsAlpha(c) == c \in AlphaSet

\* a local variable: v is evaluated once and F is applied to its value
Bind(v, F(_)) == CHOOSE r \in {F(x) : x \in {v}} : TRUE

\* the absent result of a normalizer (Python's None); no text equals it
None == <<"<None>">>

\* the lowercase letter of each uppercase letter
LowerOf == [c \in UpperSet |-> LowerLetters[CHOOSE i \in 1..Len(UpperLetters) : UpperLetters[i] = c]]

\* str.lower() on one character
LowerChar(c) == IF c \in UpperSet THEN LowerOf[c] ELSE c

\* str.lower()
Lower(s) == [i \in 1..Len(s) |-> LowerChar(s[i])]

\* str.startswith(p)
StartsWith(s, p) == Len(s) >= Len(p) /\ SubSeq(s, 1, Len(p)) = p

\* p in s
Contains(s, p) ==
    \E i \in 1..(Len(s) - Len(p) + 1) : SubSeq(s, i, i + Len(p) - 1) = p

\* index of the first character of s that is in cs, 0 when there is none
FirstOf(s, cs) ==
    IF \E i \in 1..Len(s) : s[i] \in cs
    THEN CHOOSE i \in 1..Len(s) : s[i] \in cs /\ \A j \in 1..(i - 1) : s[j] \notin cs
    ELSE 0

\* index of the last character of s that is in cs, 0 when there is none
LastOf(s, cs) ==
    IF \E i \in 1..Len(s) : s[i] \in cs
    THEN CHOOSE i \in 1..Len(s) : s[i] \in cs /\ \A j \in (i + 1)..Len(s) : s[j] \notin cs
    ELSE 0

\* s.split(c)[0]: the text before the first c (all of s when c is absent)
Before(s, c) ==
    Bind(FirstOf(s, {c}), LAMBDA i : IF i = 0 THEN s ELSE SubSeq(s, 1, i - 1))

\* str.strip(cs): drop leading and trailing characters that are in cs
Strip(s, cs) ==
    LET keep == {i \in 1..Len(s) : s[i] \notin cs}
    IN  IF keep = {} THEN <<>>
        ELSE SubSeq(s, CHOOSE i \in keep : \A j \in keep : i <= j,
                       CHOOSE i \in keep : \A j \in keep : i >= j)

Whitespace == {" "}

\* s.split()[-1] for a text with at least one non-blank character
LastToken(s) ==
    Bind(Strip(s, Whitespace), LAMBDA t : SubSeq(t, LastOf(t, Whitespace) + 1, Len(t)))

(***************************************************************************)
(* urllib.parse.urlparse(url).hostname (CPython 3.11), for ASCII text      *)
(* without "[" and "]".                                                    *)
(***************************************************************************)
SchemeChars == AlphaSet \cup Digits \cup {"+", "-", "."}

\* the tail of s after its first n characters
Drop(s, n) == SubSeq(s, n + 1, Len(s))

\* str.lstrip(cs)
LStrip(s, cs) ==
    IF \A i \in 1..Len(s) : s[i] \in cs THEN <<>>
    ELSE Drop(s, (CHOOSE i \in 1..Len(s) : s[i] \notin cs /\ \A j \in 1..(i - 1) : s[j] \in cs) - 1)

\* urlsplit: the text left once a leading "scheme:" is taken off
UrlAfterScheme(url) ==
    Bind(LStrip(url, Whitespace), LAMBDA u :
    Bind(FirstOf(u, {":"}), LAMBDA i :
        IF i > 1 /\ IsAlpha(u[1]) /\ \A j \in 1..(i - 1) : u[j] \in SchemeChars
        THEN Drop(u, i)
        ELSE u))

\* urlsplit: the network location, the text between "//" and the first of / ? #
UrlNetloc(url) ==
    Bind(UrlAfterScheme(url), LAMBDA rest :
        IF StartsWith(rest, <<"/", "/">>)
        THEN Bind(Drop(rest, 2), LAMBDA r :
             Bind(FirstOf(r, {"/", "?", "#"}), LAMBDA d :
                 IF d = 0 THEN r ELSE SubSeq(r, 1, d - 1)))
        ELSE <<>>)

\* SplitResult.hostname: drop userinfo and port, lowercase; None when empty
UrlHostname(url) ==
    Bind(UrlNetloc(url), LAMBDA netloc :
    Bind(Before(Drop(netloc, LastOf(netloc, {"@"})), ":"), LAMBDA hostname :
    Bind(FirstOf(hostname, {"%"}), LAMBDA zone :
        IF hostname = <<>> THEN None
        ELSE IF zone = 0 THEN Lower(hostname)
        ELSE Lower(SubSeq(hostname, 1, zone - 1)) \o Drop(hostname, zone - 1))))

HttpPrefix == <<"h", "t", "t", "p", ":", "/", "/">>

SchemeSep == <<":", "/", "/">>

WwwDot == <<"w", "w", "w", ".">>

(***************************************************************************)
(* The texts the model is run on.                                          *)
(***************************************************************************)
A_CO == <<"a", ".", "c", "o">>

B_CO == <<"b", ".", "c", "o">>

A_CO_CAPITAL == <<"A", ".", "c", "o">>

WWW_A_CO == <<"W", "W", "W", ".", "A", ".", "c", "o">>

WWW_ONLY == <<"w", "w", "w", ".">>

X_AT_A_CO == <<"x", "@", "a", ".", "c", "o">>

X_AT_A_CO_CAPITAL == <<"X", "@", "a", ".", "c", "o">>

\* the (type, value) parameters requests are sent with
Requests ==
    { <<"domain", A_CO>>, <<"domain", WWW_A_CO>>,
      <<"domain", WWW_ONLY>>, <<"domain", <<>> >>,
      <<"email", X_AT_A_CO_CAPITAL>>, <<"email", A_CO>>,
      <<"false_positive_domain", A_CO>> }

(***************************************************************************)
(* backend/app.py: the normalizer and validator of Check and Report.       *)
(***************************************************************************)
\* normalize_domain of app.py; the result may be empty text, which the
\* callers treat as invalid ("if not normalized_value")
AppNormalizeDomain(domain) ==
    IF domain = <<>> THEN None
    ELSE Bind(UrlHostname(IF Contains(domain, SchemeSep) THEN domain ELSE HttpPrefix \o domain),
              LAMBDA hostname :
                  IF hostname = None THEN None
                  ELSE Bind(Lower(hostname), LAMBDA h :
                           IF StartsWith(h, WwwDot) THEN Drop(h, 4) ELSE h))

EmailLocalChars == AlphaSet \cup Digits \cup {".", "_", "%", "+", "-"}

EmailDomainChars == AlphaSet \cup Digits \cup {".", "-"}

\* re.match(EMAIL_REGEX, email) is not None, for text without a newline
IsValidEmail(email) ==
    \E at \in 1..Len(email), dot \in 1..Len(email) :
        /\ email[at] = "@"
        /\ at > 1
        /\ \A i \in 1..(at - 1) : email[i] \in EmailLocalChars
        /\ email[dot] = "."
        /\ dot > at + 1
        /\ \A i \in (at + 1)..(dot - 1) : email[i] \in EmailDomainChars
        /\ Len(email) >= dot + 2
        /\ \A i \in (dot + 1)..Len(email) : IsAlpha(email[i])

ALLOWED_ITEM_TYPES == {"domain", "email"}

\* the normalization step shared by check_item and report_item: the key the
\* store is queried with, or None when the handler answers 400
NormalizeValue(item_type, value) ==
    IF item_type = "domain"
    THEN Bind(AppNormalizeDomain(value), LAMBDA n : IF n \in {None, <<>>} THEN None ELSE n)
    ELSE IF IsValidEmail(value) THEN Lower(value) ELSE None

\* NormalizeValue on the requests of the model, computed once
RequestKeys == [r \in Requests |-> NormalizeValue(r[1], r[2])]

\* NormalizeValue, read from RequestKeys where it holds the answer
AppNormalize(item_type, value) ==
    IF <<item_type, value>> \in Requests
    THEN RequestKeys[<<item_type, value>>]
    ELSE NormalizeValue(item_type, value)

(***************************************************************************)
(* backend/import_domains.py: the normalizer and the line extraction of    *)
(* the batch import.                                                       *)
(***************************************************************************)
AllDigits(s) == Len(s) > 0 /\ \A i \in 1..Len(s) : s[i] \in Digits

\* re.search(r":\d+$", s)
EndsWithPort(s) ==
    \E i \in 1..Len(s) : s[i] = ":" /\ AllDigits(Drop(s, i))

\* re.match(r"^\d{1,3}\.\d{1,3}\.\d{1,3}\.\d{1,3}(:\d+)?$", s)
MatchesIPv4(s) ==
    \E p1 \in 1..Len(s), p2 \in 1..Len(s), p3 \in 1..Len(s), e \in 1..Len(s) :
        /\ p1 < p2 /\ p2 < p3 /\ p3 < e
        /\ s[p1] = "." /\ s[p2] = "." /\ s[p3] = "."
        /\ AllDigits(SubSeq(s, 1, p1 - 1)) /\ p1 - 1 <= 3
        /\ AllDigits(SubSeq(s, p1 + 1, p2 - 1)) /\ p2 - p1 - 1 <= 3
        /\ AllDigits(SubSeq(s, p2 + 1, p3 - 1)) /\ p3 - p2 - 1 <= 3
        /\ AllDigits(SubSeq(s, p3 + 1, e)) /\ e - p3 <= 3
        /\ \/ e = Len(s)
           \/ s[e + 1] = ":" /\ AllDigits(Drop(s, e + 1))

HostChars == LowerSet \cup Digits \cup {"-", "."}

\* normalize_domain of import_domains.py, from the parsed hostname on
\* (lines 190-214)
ImportCleanHostname(hostname) ==
    Bind(Strip(IF StartsWith(hostname, WwwDot) THEN Drop(hostname, 4) ELSE hostname, {"."}),
         LAMBDA h2 :
        IF h2 = <<>> THEN None
        ELSE IF /\ \E i \in 1..Len(h2) : h2[i] \notin HostChars
                /\ \E i \in 1..Len(h2) : h2[i] \notin HostChars \cup {"_"}
        THEN None
        ELSE IF \/ "." \notin Range(h2)
                \/ h2[1] = "." \/ h2[Len(h2)] = "."
                \/ h2[1] = "-" \/ h2[Len(h2)] = "-"
        THEN None
        ELSE h2)

\* normalize_domain of import_domains.py
ImportNormalizeDomain(domain) ==
    Bind(Lower(Strip(domain, Whitespace)), LAMBDA d1 :
    Bind(Contains(d1, SchemeSep), LAMBDA scheme_present :
    Bind(Strip(d1, {"."}), LAMBDA bare :
    Bind(IF ~scheme_present THEN HttpPrefix \o bare
         ELSE IF StartsWith(d1, <<"/", "/">>) THEN <<"h", "t", "t", "p", ":">> \o d1
         ELSE d1, LAMBDA d2 :
    Bind(UrlHostname(d2), LAMBDA parsed :
        IF d1 = <<>> THEN None
        ELSE IF MatchesIPv4(d1) THEN None
        ELSE IF ":" \in Range(d1) /\ ~EndsWithPort(d1) /\ "[" \notin Range(d1) THEN None
        ELSE IF ~scheme_present /\ bare = <<>> THEN None
        ELSE ImportCleanHostname(
                 IF parsed # None THEN parsed
                 ELSE IF ~scheme_present /\ "." \in Range(d2) /\ " " \notin Range(d2)
                 THEN Before(d2, ":")
                 ELSE <<>>))))))

\* what a line of an import file contributes
SkipLine == <<"<skip>">>

InvalidLine == <<"<invalid>">>

\* import_list, lines 286-295: the candidate taken from a domain line
ExtractDomainCandidate(value) ==
    Bind(Before(Before(Before(value, "$"), "^"), "#"), LAMBDA v1 :
        Strip(IF StartsWith(v1, <<"|", "|">>) THEN Drop(v1, 2)
              ELSE IF \/ StartsWith(v1, <<"0", ".", "0", ".", "0", ".", "0", " ">>)
                      \/ StartsWith(v1, <<"1", "2", "7", ".", "0", ".", "0", ".", "1", " ">>)
              THEN LastToken(v1)
              ELSE v1,
              {".", " "}))

\* import_list, lines 274-313: one line of the file to SkipLine (not
\* counted), InvalidLine (counted in skipped_invalid) or a normalized value
ImportLine(item_type, line) ==
    Bind(Strip(line, Whitespace), LAMBDA value :
        IF value = <<>> \/ value[1] = "#" \/ value[1] = "!" THEN SkipLine
        ELSE IF item_type = "domain"
        THEN Bind(ExtractDomainCandidate(value), LAMBDA cand :
                 IF cand = <<>> THEN SkipLine
                 ELSE Bind(ImportNormalizeDomain(cand), LAMBDA normalized :
                          IF normalized = None THEN InvalidLine ELSE normalized))
        ELSE Bind(Lower(value), LAMBDA email :
                 IF IsValidEmail(email) THEN email ELSE InvalidLine))

(***************************************************************************)
(* The store.  A blocklist row is [id, value, status, source]; a whitelist *)
(* row is [id, item_type, value]; a report row is [id, item_type, value,   *)
(* status].                                                                *)
(***************************************************************************)
Kinds == {"domain", "email"}

BlockStatuses == {"active", "inactive", "under_review"}

ReportStatuses == {"pending", "reviewed"}

\* the next value of an autoincrement primary key
NextIdOf(rows) ==
    IF rows = {} THEN 1
    ELSE 1 + (CHOOSE m \in {r.id : r \in rows} : \A r \in rows : r.id <= m)

\* a session.execute(...) that raises answers with this class name
SQLAlchemyError == "SQLAlchemyError"

IntegrityError == "IntegrityError"

MultipleResultsFound == "MultipleResultsFound"

NoError == "none"

\* a response of the web application: the HTTP status code, the outcome (the
\* JSON "status", or the class of the error body), the detail (the rows in
\* the body) and the exception the handler caught
Response(code, outcome, detail, raised) ==
    [http |-> code, outcome |-> outcome, detail |-> detail, raised |-> raised]

\* Result.scalar_one_or_none(): the row (as a set of at most one row), or
\* MultipleResultsFound, a SQLAlchemyError, when several rows match
ScalarOneOrNone(rows) ==
    IF Cardinality(rows) <= 1
    THEN [raised |-> NoError, row |-> rows]
    ELSE [raised |-> MultipleResultsFound, row |-> {}]

\* WhitelistedItem.item_type == item_type, func.lower(value) == key
WhitelistMatches(wl, item_type, key) ==
    {w \in wl : w.item_type = item_type /\ Lower(w.value) = key}

\* BlockedDomain/BlockedEmail: value == key, status == 'active'
ActiveBlockMatches(bl, item_type, key) ==
    {b \in bl[item_type] : b.value = key /\ b.status = "active"}

\* ReportedItem: item_type, value == key, status == 'pending'
PendingMatches(rp, item_type, key) ==
    {r \in rp : r.item_type = item_type /\ r.value = key /\ r.status = "pending"}

(***************************************************************************)
(* check_item (GET /api/check).  fault names the store read that fails in  *)
(* this call, if any.                                                      *)
(***************************************************************************)
CheckFaults == {"none", "whitelist_read", "blocklist_read"}

\* a validation that does not look at the format of the value
ValidateTypeOnly(item_type, value) ==
    IF item_type \notin ALLOWED_ITEM_TYPES
    THEN Response(400, "invalid_type", {}, NoError)
    ELSE IF value = <<>>
    THEN Response(400, "missing_value", {}, NoError)
    ELSE Response(0, "accepted", {}, NoError)

\* lines 278-296 and 375-393: the 400 answer to a rejected input; outcome
\* "accepted" stands for falling through to the store queries
Validate(item_type, value) ==
    IF item_type \notin ALLOWED_ITEM_TYPES
    THEN Response(400, "invalid_type", {}, NoError)
    ELSE IF value = <<>>
    THEN Response(400, "missing_value", {}, NoError)
    ELSE IF AppNormalize(item_type, value) = None
    THEN Response(400, "invalid_format", {}, NoError)
    ELSE Response(0, "accepted", {}, NoError)

\* a blocklist lookup that answers safe when its query fails
CheckBlocklistFailSafe(bl, item_type, key, fault) ==
    IF fault = "blocklist_read"
    THEN Response(200, "safe", {}, SQLAlchemyError)
    ELSE IF ScalarOneOrNone(ActiveBlockMatches(bl, item_type, key)).raised # NoError
    THEN Response(500, "error", {}, MultipleResultsFound)
    ELSE IF ActiveBlockMatches(bl, item_type, key) # {}
    THEN Response(200, "blocked", ActiveBlockMatches(bl, item_type, key), NoError)
    ELSE Response(200, "safe", {}, NoError)

\* lines 313-334: the blocklist lookup of check_item
CheckBlocklist(bl, item_type, key, fault) ==
    LET found == ScalarOneOrNone(ActiveBlockMatches(bl, item_type, key))
    IN  IF fault = "blocklist_read"
        THEN Response(500, "error", {}, SQLAlchemyError)
        ELSE IF found.raised # NoError
        THEN Response(500, "error", {}, found.raised)
        ELSE IF found.row # {}
        THEN Response(200, "blocked", found.row, NoError)
        ELSE Response(200, "safe", {}, NoError)

\* lines 300-343: the lookups of check_item for an accepted key
CheckLookup(bl, wl, item_type, key, fault) ==
    LET found == ScalarOneOrNone(WhitelistMatches(wl, item_type, key))
    IN  IF fault = "whitelist_read"
        THEN Response(500, "error", {}, SQLAlchemyError)
        ELSE IF found.raised # NoError
        THEN Response(500, "error", {}, found.raised)
        ELSE IF found.row # {}
        THEN Response(200, "whitelisted", found.row, NoError)
        ELSE CheckBlocklist(bl, item_type, key, fault)

\* check_item: the response to GET /api/check?type=item_type&value=value
CheckResponse(bl, wl, item_type, value, fault) ==
    LET checked == Validate(item_type, value)
    IN  IF checked.outcome # "accepted"
        THEN checked
        ELSE CheckLookup(bl, wl, item_type, AppNormalize(item_type, value), fault)

(***************************************************************************)
(* report_item (POST /api/report) as its three store operations.  Each     *)
(* answers [done, resp, reports]: whether the handler returns here, with   *)
(* which response, and the reports table it leaves.                        *)
(***************************************************************************)
ReportFaults == {"none", "whitelist_read", "pending_read", "integrity", "commit"}

Step(done, resp, rp) == [done |-> done, resp |-> resp, reports |-> rp]

Continue(rp) == Step(FALSE, Response(0, "accepted", {}, NoError), rp)

\* a report that does not look at the whitelist
ReportWhitelistStepSkipped(wl, rp, item_type, key, fault) ==
    IF fault = "whitelist_read"
    THEN Step(TRUE, Response(500, "error", {}, SQLAlchemyError), rp)
    ELSE Continue(rp)

\* lines 399-406: the whitelist test
ReportWhitelistStep(wl, rp, item_type, key, fault) ==
    IF fault = "whitelist_read"
    THEN Step(TRUE, Response(500, "error", {}, SQLAlchemyError), rp)
    ELSE IF WhitelistMatches(wl, item_type, key) # {}
    THEN Step(TRUE, Response(200, "ignored_whitelisted", {}, NoError), rp)
    ELSE Continue(rp)

\* a report that does not look for a pending report
ReportPendingStepSkipped(rp, item_type, key, fault) ==
    IF fault = "pending_read"
    THEN Step(TRUE, Response(500, "error", {}, SQLAlchemyError), rp)
    ELSE Continue(rp)

\* a pending-report test that counts a report of any status
ReportPendingStepAnyStatus(rp, item_type, key, fault) ==
    IF fault = "pending_read"
    THEN Step(TRUE, Response(500, "error", {}, SQLAlchemyError), rp)
    ELSE IF {r \in rp : r.item_type = item_type /\ r.value = key} # {}
    THEN Step(TRUE, Response(200, "already_reported", {}, NoError), rp)
    ELSE Continue(rp)

\* lines 411-423: the pending-report test
ReportPendingStep(rp, item_type, key, fault) ==
    IF fault = "pending_read"
    THEN Step(TRUE, Response(500, "error", {}, SQLAlchemyError), rp)
    ELSE IF PendingMatches(rp, item_type, key) # {}
    THEN Step(TRUE, Response(200, "already_reported", {}, NoError), rp)
    ELSE Continue(rp)

\* the row report_item adds
NewReport(rp, item_type, key) ==
    [id |-> NextIdOf(rp), item_type |-> item_type, value |-> key, status |-> "pending"]

\* lines 425-451: add the report and commit; an IntegrityError is answered
\* 409 and any other SQLAlchemyError 500, both after a rollback
ReportInsertStep(rp, item_type, key, fault) ==
    IF fault = "integrity"
    THEN Step(TRUE, Response(409, "error", {}, IntegrityError), rp)
    ELSE IF fault = "commit"
    THEN Step(TRUE, Response(500, "error", {}, SQLAlchemyError), rp)
    ELSE Step(TRUE, Response(201, "created", {NewReport(rp, item_type, key)}, NoError),
              rp \cup {NewReport(rp, item_type, key)})

\* a report that, past the whitelist test, answers ignored_already_blocked
\* for a key with an active blocklist row
ReportStoreBlockedIgnored(wl, rp, item_type, key, fault) ==
    IF ReportWhitelistStep(wl, rp, item_type, key, fault).done
    THEN ReportWhitelistStep(wl, rp, item_type, key, fault)
    ELSE IF ActiveBlockMatches(blocked, item_type, key) # {}
    THEN Step(TRUE, Response(200, "ignored_already_blocked", {}, NoError), rp)
    ELSE IF ReportPendingStep(rp, item_type, key, fault).done
    THEN ReportPendingStep(rp, item_type, key, fault)
    ELSE ReportInsertStep(rp, item_type, key, fault)

\* lines 397-455: the three store operations in sequence
ReportStore(wl, rp, item_type, key, fault) ==
    LET s1 == ReportWhitelistStep(wl, rp, item_type, key, fault)
        s2 == ReportPendingStep(rp, item_type, key, fault)
    IN  IF s1.done THEN s1
        ELSE IF s2.done THEN s2
        ELSE ReportInsertStep(rp, item_type, key, fault)

\* report_item: the response to POST /api/report and the reports table left
ReportResult(wl, rp, item_type, value, fault) ==
    LET checked == Validate(item_type, value)
    IN  IF checked.outcome # "accepted"
        THEN Step(TRUE, checked, rp)
        ELSE ReportStore(wl, rp, item_type, AppNormalize(item_type, value), fault)

(***************************************************************************)
(* Bounds of the model and the texts it is run on.                         *)
(***************************************************************************)
\* rows in the blocklist and reports tables before the first call
MaxInitRows == 2

\* rows the reports table may hold
MaxReports == 3

\* the values rows are stored under before the first call
StoredValues == [domain |-> {A_CO}, email |-> {X_AT_A_CO}]

\* the whitelist rows an administrator may have added: the unique
\* constraint on (item_type, value) compares values exactly
WhitelistPool ==
    { [id |-> 1, item_type |-> "domain", value |-> A_CO],
      [id |-> 2, item_type |-> "domain", value |-> A_CO_CAPITAL] }

\* the source column of a row that no import added
Seed == <<"s", "e", "e", "d">>

\* the blocklist tables with k rows, ids 1..k, over the given values and
\* statuses
TablesOf(values, statuses, k) ==
    { {[id |-> i, value |-> q[i][1], status |-> q[i][2], source |-> Seed] : i \in 1..k} :
        q \in [1..k -> values \X statuses] }

\* the blocklist tables with k rows before the first request
BlockTables(item_type, k) == TablesOf(StoredValues[item_type], BlockStatuses, k)

\* the (item_type, value, status) of a report row before the first call
ReportRowChoices ==
    {<<t, v, st>> \in Kinds \X (StoredValues["domain"] \cup StoredValues["email"]) \X ReportStatuses :
        v \in StoredValues[t]}

\* the reports tables with k rows, ids 1..k
ReportTables(k) ==
    { {[id |-> i, item_type |-> q[i][1], value |-> q[i][2], status |-> q[i][3]] : i \in 1..k} :
        q \in [1..k -> ReportRowChoices] }

\* no two rows of a table hold the same value
NoDuplicateValues(rows) ==
    \A r1 \in rows, r2 \in rows : r1.value = r2.value => r1 = r2

Idle == [item_type |-> "", value |-> <<>>, key |-> None, resp |-> Response(0, "none", {}, NoError)]

NoCall == [op |-> "none", item_type |-> "", value |-> <<>>, resp |-> Response(0, "none", {}, NoError)]

\* the stores a run starts from: up to MaxInitRows rows in the blocklist
\* and reports tables together; duplicates only where the store does not
\* enforce the unique constraint of the blocklist tables
InitStore ==
    /\ \E kd \in 0..MaxInitRows : \E ke \in 0..(MaxInitRows - kd) : \E kr \in 0..(MaxInitRows - kd - ke) :
          /\ \E d \in BlockTables("domain", kd), e \in BlockTables("email", ke) :
                /\ uniqueValue => NoDuplicateValues(d) /\ NoDuplicateValues(e)
                /\ blocked = [domain |-> d, email |-> e]
          /\ reports \in ReportTables(kr)
    /\ whitelist \in SUBSET WhitelistPool
    /\ nextId = [k \in Kinds |-> NextIdOf(blocked[k])]

(***************************************************************************)
(* The web application, one request at a time.  The blocklist tables are   *)
(* only read here, so they start in any state, duplicates included.        *)
(***************************************************************************)
Init ==
    /\ uniqueValue = FALSE
    /\ InitStore
    /\ last = NoCall
    /\ pc = [p \in {} |-> "idle"]
    /\ req = [p \in {} |-> Idle]

\* GET /api/check
CheckItem ==
    \E r \in Requests, f \in CheckFaults :
        /\ last' = [op |-> "check", item_type |-> r[1], value |-> r[2],
                    resp |-> CheckResponse(blocked, whitelist, r[1], r[2], f)]
        /\ UNCHANGED <<blocked, whitelist, reports, uniqueValue, pc, req, nextId>>

\* a report that, once filed, also blocks the reported key
ReportItemBlocksKey ==
    \E r \in Requests, f \in ReportFaults :
        LET result == ReportResult(whitelist, reports, r[1], r[2], f)
        IN  /\ Cardinality(reports) < MaxReports
            /\ reports' = result.reports
            /\ last' = [op |-> "report", item_type |-> r[1], value |-> r[2], resp |-> result.resp]
            /\ blocked' = IF result.resp.outcome = "created"
                          THEN [blocked EXCEPT ![r[1]] =
                                  @ \cup {[id |-> NextIdOf(@), value |-> AppNormalize(r[1], r[2]),
                                           status |-> "active", source |-> Seed]}]
                          ELSE blocked
            /\ UNCHANGED <<whitelist, uniqueValue, pc, req, nextId>>

\* POST /api/report
ReportItem ==
    \E r \in Requests, f \in ReportFaults :
        LET result == ReportResult(whitelist, reports, r[1], r[2], f)
        IN  /\ Cardinality(reports) < MaxReports
            /\ reports' = result.reports
            /\ last' = [op |-> "report", item_type |-> r[1], value |-> r[2], resp |-> result.resp]
            /\ UNCHANGED <<blocked, whitelist, uniqueValue, pc, req, nextId>>

Next == CheckItem \/ ReportItem

Spec == Init /\ [][Next]_vars

(***************************************************************************)
(* Claims about Check and Report, one request at a time (Spec).            *)
(***************************************************************************)
\* the key of the last call, None when its input was rejected
LastKey == AppNormalize(last.item_type, last.value)

\* the last call passed validation and no store operation of it failed
\* (MultipleResultsFound is raised by the handler's own row count, not by
\* a failing store operation)
LastServed(op) ==
    /\ last.op = op
    /\ Validate(last.item_type, last.value).outcome = "accepted"
    /\ last.resp.raised \notin {SQLAlchemyError, IntegrityError}

\* the same, of the call a step has just made
StepServed(op) ==
    /\ last'.op = op
    /\ Validate(last'.item_type, last'.value).outcome = "accepted"
    /\ last'.resp.raised \notin {SQLAlchemyError, IntegrityError}

StepKey == AppNormalize(last'.item_type, last'.value)

\* at most one pending report per (item_type, value)
AtMostOnePending(rp) ==
    \A r1 \in rp, r2 \in rp :
        (r1.status = "pending" /\ r2.status = "pending"
         /\ r1.item_type = r2.item_type /\ r1.value = r2.value) => r1 = r2

\* C1: whitelist priority.  Whenever Check is asked about a key that has a
\* whitelist entry and an active blocklist entry, and the store reads
\* succeed, the answer is whitelisted.
C1_WhitelistPriority ==
    ( /\ LastServed("check")
      /\ WhitelistMatches(whitelist, last.item_type, LastKey) # {}
      /\ ActiveBlockMatches(blocked, last.item_type, LastKey) # {} )
    => last.resp.outcome = "whitelisted"

\* C2: for a key without whitelist entry, Check answers blocked exactly
\* when an active blocklist row for the key exists, and safe with empty
\* detail otherwise.
C2_BlockedIffActive ==
    ( /\ LastServed("check")
      /\ WhitelistMatches(whitelist, last.item_type, LastKey) = {} )
    => /\ last.resp.outcome = "blocked"
            <=> ActiveBlockMatches(blocked, last.item_type, LastKey) # {}
       /\ ActiveBlockMatches(blocked, last.item_type, LastKey) = {}
            => last.resp.outcome = "safe" /\ last.resp.detail = {}

\* C5 as stated: Report keeps "at most one pending report per key", and a
\* served report for a key that has a pending report answers
\* already_reported and adds no row.
C5_PendingAlwaysAlreadyReported ==
    [][ /\ AtMostOnePending(reports) => AtMostOnePending(reports')
        /\ (StepServed("report") /\ PendingMatches(reports, last'.item_type, StepKey) # {})
             => (last'.resp.outcome = "already_reported" /\ reports' = reports) ]_vars

\* C5 as amended: Report keeps "at most one pending report per key"; a
\* served report for a key that has a pending report adds no row, and
\* answers already_reported when the key is not whitelisted and
\* ignored_whitelisted when it is.
C5_OnePendingPerKey ==
    [][ /\ AtMostOnePending(reports) => AtMostOnePending(reports')
        /\ (StepServed("report") /\ PendingMatches(reports, last'.item_type, StepKey) # {})
             => /\ reports' = reports
                /\ last'.resp.outcome =
                     IF WhitelistMatches(whitelist, last'.item_type, StepKey) = {}
                     THEN "already_reported" ELSE "ignored_whitelisted" ]_vars

\* a second report of a key whose first report is pending was answered
\* already_reported, and the table holds a single pending row for the key
C5_Witness ==
    /\ last.op = "report"
    /\ last.resp.outcome = "already_reported"
    /\ last.item_type = "domain"
    /\ whitelist = {}
    /\ Cardinality(PendingMatches(reports, "domain", A_CO)) = 1
    /\ LastKey = A_CO

\* C7: a Report whose insert raised IntegrityError is answered
\* already_reported and not with an error.
C7_IntegrityIsAlreadyReported ==
    (last.op = "report" /\ last.resp.raised = IntegrityError)
    => (last.resp.outcome = "already_reported" /\ last.resp.http < 400)

\* C8: a Report for a key that has a whitelist entry adds no report row,
\* and is answered ignored_whitelisted unless the whitelist query itself
\* failed.
C8_WhitelistedNeverReported ==
    [][ ( /\ last'.op = "report"
          /\ Validate(last'.item_type, last'.value).outcome = "accepted"
          /\ WhitelistMatches(whitelist, last'.item_type, StepKey) # {} )
        => /\ reports' = reports
           /\ last'.resp.raised = NoError => last'.resp.outcome = "ignored_whitelisted" ]_vars

\* a report of a whitelisted key that is actively blocked and has reports
\* on file was ignored
C8_Witness ==
    /\ last.op = "report"
    /\ last.resp.outcome = "ignored_whitelisted"
    /\ ActiveBlockMatches(blocked, last.item_type, LastKey) # {}
    /\ reports # {}

\* C9 as stated: a served Report for a key that is not whitelisted and has
\* an active blocklist row is answered ignored_already_blocked and adds no
\* row.
C9_BlockedReportIgnored ==
    [][ ( /\ StepServed("report")
          /\ WhitelistMatches(whitelist, last'.item_type, StepKey) = {}
          /\ ActiveBlockMatches(blocked, last'.item_type, StepKey) # {} )
        => (last'.resp.outcome = "ignored_already_blocked" /\ reports' = reports) ]_vars

\* C9 as amended: report_item does not consult the blocklist; a served
\* Report for a key that is not whitelisted and has an active blocklist row
\* creates one pending report for the key (created), or is answered
\* already_reported, adding no row, when a pending report for it exists.
C9_BlockedReportStillFiled ==
    [][ ( /\ StepServed("report")
          /\ WhitelistMatches(whitelist, last'.item_type, StepKey) = {}
          /\ ActiveBlockMatches(blocked, last'.item_type, StepKey) # {} )
        => IF PendingMatches(reports, last'.item_type, StepKey) # {}
           THEN last'.resp.outcome = "already_reported" /\ reports' = reports
           ELSE /\ last'.resp.outcome = "created"
                /\ \E n \in reports' \ reports :
                      /\ reports' = reports \cup {n}
                      /\ n.status = "pending"
                      /\ n.item_type = last'.item_type
                      /\ n.value = StepKey ]_vars

\* a report of an actively blocked key was filed as a pending report
C9_Witness ==
    /\ last.op = "report"
    /\ last.resp.outcome = "created"
    /\ ActiveBlockMatches(blocked, last.item_type, LastKey) # {}
    /\ PendingMatches(reports, last.item_type, LastKey) # {}

\* C10: a Report whose value the normalization rejects is answered 400,
\* not as a submission, and leaves the three tables unchanged.
C10_InvalidReportRejected ==
    [][ ( /\ last'.op = "report"
          /\ last'.item_type \in ALLOWED_ITEM_TYPES
          /\ StepKey = None )
        => /\ last'.resp.http = 400
           /\ last'.resp.outcome \in {"missing_value", "invalid_format"}
           /\ UNCHANGED <<reports, blocked, whitelist>> ]_vars

\* a report of "www.", which normalizes to the empty hostname, was rejected
C10_Witness ==
    /\ last.op = "report"
    /\ last.item_type = "domain"
    /\ last.value = WWW_ONLY
    /\ last.resp.outcome = "invalid_format"

\* C11: a Check in which a store read fails (the handler catches an
\* exception of the whitelist or blocklist query) is answered with the
\* error outcome, never safe, blocked or whitelisted, and leaves the
\* tables as they were (the session is rolled back).
C11_ReadFailureIsError ==
    [][ (last'.op = "check" /\ last'.resp.raised # NoError)
        => /\ last'.resp.outcome = "error"
           /\ last'.resp.http = 500
           /\ last'.resp.detail = {}
           /\ UNCHANGED <<blocked, whitelist, reports>> ]_vars

\* the blocklist query of a Check of an actively blocked key failed, and
\* the answer was the error outcome
C11_Witness ==
    /\ last.op = "check"
    /\ last.resp.raised = SQLAlchemyError
    /\ last.resp.outcome = "error"
    /\ WhitelistMatches(whitelist, last.item_type, LastKey) = {}
    /\ ActiveBlockMatches(blocked, last.item_type, LastKey) # {}

\* C12: a Check of an allowed type whose value the normalization rejects
\* is answered with a defined status (safe, blocked or whitelisted), not
\* with an error.
C12_InvalidCheckHasStatus ==
    ( /\ last.op = "check"
      /\ last.item_type \in ALLOWED_ITEM_TYPES
      /\ last.value # <<>>
      /\ LastKey = None )
    => /\ last.resp.outcome \in {"safe", "blocked", "whitelisted"}
       /\ last.resp.http < 400

\* C21: a Report whose type carries the false-positive tag, for a value the
\* domain normalization accepts, is answered removed or not_found, leaves
\* no active blocklist row for the key and files no pending report.
C21_FalsePositiveRemoves ==
    ( /\ last.op = "report"
      /\ last.item_type = "false_positive_domain"
      /\ NormalizeValue("domain", last.value) # None )
    => /\ last.resp.outcome \in {"removed", "not_found"}
       /\ ActiveBlockMatches(blocked, "domain", NormalizeValue("domain", last.value)) = {}

\* C23: a Report of a valid key that is not whitelisted and has no pending
\* report, served without a store failure, is answered created and adds
\* exactly one row to the reports table, with status pending and the
\* normalized value, also when the table holds older reports of the key
\* that are not pending.
C23_NewPendingReportCreated ==
    [][ ( /\ StepServed("report")
          /\ WhitelistMatches(whitelist, last'.item_type, StepKey) = {}
          /\ PendingMatches(reports, last'.item_type, StepKey) = {} )
        => /\ last'.resp.outcome = "created"
           /\ last'.resp.http = 201
           /\ reports \subseteq reports'
           /\ Cardinality(reports' \ reports) = 1
           /\ \A r \in reports' \ reports :
                 /\ r.status = "pending"
                 /\ r.item_type = last'.item_type
                 /\ r.value = StepKey
                 /\ \A x \in reports : x.id # r.id ]_vars

\* a report of a key with an older report that is not pending was answered
\* created; the table holds the older row and the new pending one
C23_Witness ==
    /\ last.op = "report"
    /\ last.resp.outcome = "created"
    /\ \E r \in reports : r.item_type = last.item_type /\ r.value = LastKey /\ r.status # "pending"
    /\ Cardinality(PendingMatches(reports, last.item_type, LastKey)) = 1

\* C25: a Report, whatever its outcome, leaves the blocklist and the
\* whitelist as they were, so that a Check of any request is answered
\* after the Report as it would have been before it.
C25_ReportLeavesCheckUnchanged ==
    [][ last'.op = "report"
        => /\ blocked' = blocked
           /\ whitelist' = whitelist
           /\ \A r \in Requests :
                 CheckResponse(blocked', whitelist', r[1], r[2], "none")
                   = CheckResponse(blocked, whitelist, r[1], r[2], "none") ]_vars

\* a report was filed for a key that has no blocklist row, and a Check of
\* the key is still answered safe
C25_Witness ==
    /\ last.op = "report"
    /\ last.resp.outcome = "created"
    /\ PendingMatches(reports, last.item_type, LastKey) # {}
    /\ CheckResponse(blocked, whitelist, last.item_type, last.value, "none").outcome = "safe"

\* C30: a Check of a valid key in which no store read fails is answered
\* whitelisted, blocked or safe and never with an error, also when several
\* whitelist rows match the key ignoring letter case or several blocklist
\* rows of the value are active.
C30_CheckNeverErrors ==
    LastServed("check")
    => /\ last.resp.outcome \in {"whitelisted", "blocked", "safe"}
       /\ last.resp.http = 200

(***************************************************************************)
(* Two concurrent POST /api/report requests (SpecRace).  Each request has  *)
(* its own session; every query and the insert-and-commit is one store     *)
(* operation, and the requests interleave between them.  report_item does  *)
(* not read the blocklist tables, which are empty here.                    *)
(***************************************************************************)
Reporters == {1, 2}

InitRace ==
    /\ uniqueValue = FALSE
    /\ blocked = [k \in Kinds |-> {}]
    /\ nextId = [k \in Kinds |-> 1]
    /\ whitelist \in SUBSET WhitelistPool
    /\ \E kr \in 0..MaxInitRows : reports \in ReportTables(kr)
    /\ AtMostOnePending(reports)
    /\ last = NoCall
    /\ pc = [p \in Reporters |-> "idle"]
    /\ req = [p \in Reporters |-> Idle]

\* what a store operation of reporter p leaves: its response when the
\* handler returns here, else its next position
Advance(p, step, next) ==
    /\ pc' = [pc EXCEPT ![p] = IF step.done THEN "done" ELSE next]
    /\ req' = [req EXCEPT ![p].resp = IF step.done THEN step.resp ELSE @]
    /\ reports' = step.reports

\* lines 364-395: read and validate the request
RaceReceive(p) ==
    /\ pc[p] = "idle"
    /\ \E r \in Requests :
          LET checked == Validate(r[1], r[2])
          IN  /\ pc' = [pc EXCEPT ![p] = IF checked.outcome = "accepted" THEN "whitelist" ELSE "done"]
              /\ req' = [req EXCEPT ![p] = [item_type |-> r[1], value |-> r[2],
                                            key |-> AppNormalize(r[1], r[2]), resp |-> checked]]
    /\ UNCHANGED <<blocked, whitelist, reports, uniqueValue, last, nextId>>

\* lines 399-406
RaceWhitelist(p) ==
    /\ pc[p] = "whitelist"
    /\ \E f \in {"none", "whitelist_read"} :
          Advance(p, ReportWhitelistStep(whitelist, reports, req[p].item_type, req[p].key, f), "pending")
    /\ UNCHANGED <<blocked, whitelist, uniqueValue, last, nextId>>

\* lines 411-423
RacePending(p) ==
    /\ pc[p] = "pending"
    /\ \E f \in {"none", "pending_read"} :
          Advance(p, ReportPendingStep(reports, req[p].item_type, req[p].key, f), "insert")
    /\ UNCHANGED <<blocked, whitelist, uniqueValue, last, nextId>>

\* lines 425-451
RaceInsert(p) ==
    /\ pc[p] = "insert"
    /\ \E f \in {"none", "integrity", "commit"} :
          Advance(p, ReportInsertStep(reports, req[p].item_type, req[p].key, f), "done")
    /\ UNCHANGED <<blocked, whitelist, uniqueValue, last, nextId>>

NextRace ==
    \E p \in Reporters : RaceReceive(p) \/ RaceWhitelist(p) \/ RacePending(p) \/ RaceInsert(p)

SpecRace == InitRace /\ [][NextRace]_vars

\* C6: under any interleaving of two concurrent Report calls, at most one
\* pending report per (item_type, value) exists in every reachable state.
C6_OnePendingUnderRace == AtMostOnePending(reports)

(***************************************************************************)
(* backend/import_domains.py: import_list and remove_database_duplicates,  *)
(* one run at a time (SpecBatch).  A run answers [rows, nextId, counts,    *)
(* raised]: the table and the autoincrement counter it leaves, the numbers *)
(* it returns and the exception it caught.                                 *)
(***************************************************************************)
\* values per query: DEFAULT_CHUNK_SIZE, scaled to the files of the model
DEFAULT_CHUNK_SIZE == 1

\* rows in the two blocklist tables before the first run
MaxBatchRows == 4

ADBLOCK_B_CO == <<"|", "|", "b", ".", "c", "o", "^">>

COMMENT_LINE == <<"#", " ", "c">>

IP_LINE == <<"1", ".", "2", ".", "3", ".", "4">>

\* the files an import is run on; the last one does not exist
Files ==
    { [name |-> <<"f", "1">>, exists |-> TRUE, lines |-> <<A_CO, ADBLOCK_B_CO, WWW_A_CO>>],
      [name |-> <<"f", "2">>, exists |-> TRUE, lines |-> <<COMMENT_LINE, B_CO, IP_LINE>>],
      [name |-> <<"f", "3">>, exists |-> TRUE, lines |-> <<X_AT_A_CO_CAPITAL, X_AT_A_CO>>],
      [name |-> <<"f", "4">>, exists |-> FALSE, lines |-> <<>>] }

FileLines == UNION {Range(f.lines) : f \in Files}

\* ImportLine on the lines of the files, computed once
FileLineValues == [k \in Kinds |-> [l \in FileLines |-> ImportLine(k, l)]]

FileNotFoundError == "FileNotFoundError"

IOError == "IOError"

ImportFaults == {"none", "check_read", "insert_integrity", "insert_error"}

Min(a, b) == IF a <= b THEN a ELSE b

\* the number of chunks range(0, len(items), DEFAULT_CHUNK_SIZE) walks
NumChunks(items) == (Len(items) + DEFAULT_CHUNK_SIZE - 1) \div DEFAULT_CHUNK_SIZE

\* items[i : i + DEFAULT_CHUNK_SIZE] of the n-th chunk
ChunkAt(items, n) ==
    SubSeq(items, (n - 1) * DEFAULT_CHUNK_SIZE + 1, Min(n * DEFAULT_CHUNK_SIZE, Len(items)))

BatchResult(rows, nid, counts, raised) ==
    [rows |-> rows, nextId |-> nid, counts |-> counts, raised |-> raised]

\* the tuple import_list returns
ImportCounts(added, skipped, errors) ==
    [added |-> added, skipped |-> skipped, errors |-> errors]

NothingRead == [valid_items_to_check |-> <<>>, skipped_invalid |-> 0, skipped_dup_file |-> 0]

\* lines 270-328: the file read into its valid values, without repeats and
\* in file order, and the counts of the lines left out
RECURSIVE ReadLines(_, _, _)
ReadLines(item_type, lines, acc) ==
    IF lines = <<>> THEN acc
    ELSE Bind(FileLineValues[item_type][Head(lines)], LAMBDA normalized_value :
             ReadLines(item_type, Tail(lines),
                 IF normalized_value = SkipLine THEN acc
                 ELSE IF normalized_value = InvalidLine
                 THEN [acc EXCEPT !.skipped_invalid = @ + 1]
                 ELSE IF normalized_value \in Range(acc.valid_items_to_check)
                 THEN [acc EXCEPT !.skipped_dup_file = @ + 1]
                 ELSE [acc EXCEPT !.valid_items_to_check = Append(@, normalized_value)]))

\* ReadLines on the files, computed once
FileReads == [k \in Kinds |-> [f \in Files |-> ReadLines(k, f.lines, NothingRead)]]

\* an import that takes no value of the file to be in the table
ExistingInDbNotAsked(rows, valid_items_to_check) == {}

\* an existence check that asks for the first chunk of the values only
ExistingInDbFirstChunk(rows, valid_items_to_check) ==
    {r.value : r \in rows} \cap Range(ChunkAt(valid_items_to_check, 1))

\* lines 337-352: the values of the file that the table holds, asked for
\* chunk by chunk
ExistingInDb(rows, valid_items_to_check) ==
    UNION { {r.value : r \in rows} \cap Range(ChunkAt(valid_items_to_check, n)) :
              n \in 1..NumChunks(valid_items_to_check) }

\* a source tag that does not name the file
ImportSourceTagFixed(file) == <<"i", "m", "p", "o", "r", "t", "_">>

\* line 367: the source column of the rows an import adds
ImportSourceTag(file) == <<"i", "m", "p", "o", "r", "t", "_">> \o file.name

\* lines 369-381: the rows to insert, in file order
ItemsToInsert(nid, new_items, file) ==
    { [id |-> nid + i - 1, value |-> new_items[i], status |-> "active",
       source |-> ImportSourceTag(file)] : i \in 1..Len(new_items) }

\* an insert into a store that does not refuse a repeated value
BulkInsertUnconstrained(rows, nid, unique, new_items, file, skipped, fault) ==
    IF fault = "insert_integrity"
    THEN BatchResult(rows, nid, ImportCounts(0, skipped, Len(new_items)), IntegrityError)
    ELSE IF fault = "insert_error"
    THEN BatchResult(rows, nid, ImportCounts(0, skipped, Len(new_items)), SQLAlchemyError)
    ELSE BatchResult(rows \cup ItemsToInsert(nid, new_items, file), nid + Len(new_items),
                     ImportCounts(Len(new_items), skipped, 0), NoError)

\* an insert whose failure leaves the first row of the batch in the table
BulkInsertFirstRowKept(rows, nid, unique, new_items, file, skipped, fault) ==
    IF \/ fault = "insert_integrity"
       \/ unique /\ \E i \in 1..Len(new_items) : new_items[i] \in {r.value : r \in rows}
    THEN BatchResult(rows \cup ItemsToInsert(nid, SubSeq(new_items, 1, 1), file), nid + 1,
                     ImportCounts(0, skipped, Len(new_items)), IntegrityError)
    ELSE IF fault = "insert_error"
    THEN BatchResult(rows \cup ItemsToInsert(nid, SubSeq(new_items, 1, 1), file), nid + 1,
                     ImportCounts(0, skipped, Len(new_items)), SQLAlchemyError)
    ELSE BatchResult(rows \cup ItemsToInsert(nid, new_items, file), nid + Len(new_items),
                     ImportCounts(Len(new_items), skipped, 0), NoError)

\* lines 383-406: bulk_insert_mappings and commit, or the rollback of the
\* whole batch; the store refuses a repeated value where it enforces the
\* unique constraint
BulkInsert(rows, nid, unique, new_items, file, skipped, fault) ==
    IF \/ fault = "insert_integrity"
       \/ unique /\ \E i \in 1..Len(new_items) : new_items[i] \in {r.value : r \in rows}
    THEN BatchResult(rows, nid, ImportCounts(0, skipped, Len(new_items)), IntegrityError)
    ELSE IF fault = "insert_error"
    THEN BatchResult(rows, nid, ImportCounts(0, skipped, Len(new_items)), SQLAlchemyError)
    ELSE BatchResult(rows \cup ItemsToInsert(nid, new_items, file), nid + Len(new_items),
                     ImportCounts(Len(new_items), skipped, 0), NoError)

\* lines 332-409: the existence check and the insert of the values read
ImportValues(rows, nid, unique, read, file, fault) ==
    IF read.valid_items_to_check = <<>>
    THEN BatchResult(rows, nid,
                     ImportCounts(0, read.skipped_invalid + read.skipped_dup_file, 0), NoError)
    ELSE IF fault = "check_read"
    THEN BatchResult(rows, nid,
                     ImportCounts(0, read.skipped_invalid + read.skipped_dup_file,
                                  Len(read.valid_items_to_check)), SQLAlchemyError)
    ELSE Bind(ExistingInDb(rows, read.valid_items_to_check), LAMBDA existing_in_db :
         Bind(SelectSeq(read.valid_items_to_check, LAMBDA v : v \notin existing_in_db),
              LAMBDA new_items :
         Bind(Cardinality(existing_in_db) + read.skipped_invalid + read.skipped_dup_file,
              LAMBDA total_skipped :
             IF new_items = <<>>
             THEN BatchResult(rows, nid, ImportCounts(0, total_skipped, 0), NoError)
             ELSE BulkInsert(rows, nid, unique, new_items, file, total_skipped, fault))))

\* import_list(session, ModelClass, item_type, filename)
ImportResult(rows, nid, unique, item_type, file, fault) ==
    IF ~file.exists
    THEN BatchResult(rows, nid, ImportCounts(0, 0, 1), FileNotFoundError)
    ELSE IF fault = "read_error"
    THEN BatchResult(rows, nid, ImportCounts(0, 0, 1), IOError)
    ELSE ImportValues(rows, nid, unique, FileReads[item_type][file], file, fault)

\* lines 462-468: the values held by more than one row
DuplicateValues(rows) ==
    {v \in {r.value : r \in rows} : Cardinality({r \in rows : r.value = v}) > 1}

\* the orders in which the query may return them
Orders(values) ==
    {q \in [1..Cardinality(values) -> values] : Range(q) = values}

\* max(id) of the rows of each value of the chunk
MaxPkSubquery(rows, chunk_values) ==
    { CHOOSE m \in {r.id : r \in {x \in rows : x.value = v}} :
          \A r \in {x \in rows : x.value = v} : m >= r.id :
        v \in Range(chunk_values) \cap {r.value : r \in rows} }

\* lines 489-494: min(id) of the rows of each value of the chunk
MinPkSubquery(rows, chunk_values) ==
    { CHOOSE m \in {r.id : r \in {x \in rows : x.value = v}} :
          \A r \in {x \in rows : x.value = v} : m <= r.id :
        v \in Range(chunk_values) \cap {r.value : r \in rows} }

\* lines 501-505: the table once the rows of the chunk's values whose id
\* is not one of those minima are deleted
DeleteChunk(rows, chunk_values) ==
    {r \in rows : ~(r.value \in Range(chunk_values) /\ r.id \notin MinPkSubquery(rows, chunk_values))}

DedupFaults == {"none", "query", "delete"}

\* lines 481-521: the chunks from the n-th on, each deleted and committed
\* on its own; the chunk whose delete fails is rolled back and ends the
\* run with -1
RECURSIVE DeleteChunks(_, _, _, _, _)
DeleteChunks(rows, duplicate_values, n, fail_at, total_deleted) ==
    IF n > NumChunks(duplicate_values) THEN [rows |-> rows, deleted |-> total_deleted, raised |-> NoError]
    ELSE IF n = fail_at THEN [rows |-> rows, deleted |-> -1, raised |-> SQLAlchemyError]
    ELSE Bind(DeleteChunk(rows, ChunkAt(duplicate_values, n)), LAMBDA kept :
             DeleteChunks(kept, duplicate_values, n + 1, fail_at,
                          total_deleted + Cardinality(rows) - Cardinality(kept)))

\* a deduplication that rolls every chunk back when one chunk fails
RemoveResultOneTransaction(rows, duplicate_values, fault, fail_at) ==
    IF fault = "query" THEN [rows |-> rows, deleted |-> -1, raised |-> SQLAlchemyError]
    ELSE IF duplicate_values = <<>> THEN [rows |-> rows, deleted |-> 0, raised |-> NoError]
    ELSE Bind(DeleteChunks(rows, duplicate_values, 1, IF fault = "delete" THEN fail_at ELSE 0, 0),
              LAMBDA result :
                 IF result.raised = NoError THEN result
                 ELSE [rows |-> rows, deleted |-> -1, raised |-> result.raised])

\* remove_database_duplicates(session, ModelClass, item_type)
RemoveResult(rows, duplicate_values, fault, fail_at) ==
    IF fault = "query" THEN [rows |-> rows, deleted |-> -1, raised |-> SQLAlchemyError]
    ELSE IF duplicate_values = <<>> THEN [rows |-> rows, deleted |-> 0, raised |-> NoError]
    ELSE DeleteChunks(rows, duplicate_values, 1, IF fault = "delete" THEN fail_at ELSE 0, 0)

\* the statuses and values of the rows before the first run
BatchStatuses == {"active", "inactive"}

BatchValues == [domain |-> {A_CO, B_CO}, email |-> {X_AT_A_CO}]

\* the tables a run may start from: duplicates only where the store does
\* not enforce the unique constraint
InitBatch ==
    /\ uniqueValue \in BOOLEAN
    /\ \E kd \in 0..MaxBatchRows : \E ke \in 0..Min(1, MaxBatchRows - kd) :
          \E d \in TablesOf(BatchValues["domain"], BatchStatuses, kd),
             e \in TablesOf(BatchValues["email"], BatchStatuses, ke) :
                /\ uniqueValue => NoDuplicateValues(d) /\ NoDuplicateValues(e)
                /\ blocked = [domain |-> d, email |-> e]
    /\ nextId = [k \in Kinds |-> NextIdOf(blocked[k])]
    /\ whitelist = {}
    /\ reports = {}
    /\ last = NoCall
    /\ pc = [p \in {} |-> "idle"]
    /\ req = [p \in {} |-> Idle]

\* one call of import_list, on one file
ImportList ==
    \E k \in Kinds, file \in Files, f \in ImportFaults :
        LET result == ImportResult(blocked[k], nextId[k], uniqueValue, k, file, f)
        IN  /\ blocked' = [blocked EXCEPT ![k] = result.rows]
            /\ nextId' = [nextId EXCEPT ![k] = result.nextId]
            /\ last' = [op |-> "import", item_type |-> k, value |-> file.name,
                        resp |-> Response(0, IF result.raised = NoError THEN "completed" ELSE "failed",
                                          {result.counts}, result.raised)]
            /\ UNCHANGED <<whitelist, reports, uniqueValue, pc, req>>

\* one call of remove_database_duplicates
RemoveDatabaseDuplicates ==
    \E k \in Kinds, f \in DedupFaults :
        \E duplicate_values \in Orders(DuplicateValues(blocked[k])) :
            \E fail_at \in 1..(IF f = "delete" THEN NumChunks(duplicate_values) ELSE 1) :
                LET result == RemoveResult(blocked[k], duplicate_values, f, fail_at)
                IN  /\ blocked' = [blocked EXCEPT ![k] = result.rows]
                    /\ last' = [op |-> "dedup", item_type |-> k, value |-> <<>>,
                                resp |-> Response(0, IF result.raised = NoError THEN "completed" ELSE "failed",
                                                  {[deleted |-> result.deleted]}, result.raised)]
                    /\ UNCHANGED <<whitelist, reports, uniqueValue, pc, req, nextId>>

NextBatch == ImportList \/ RemoveDatabaseDuplicates

SpecBatch == InitBatch /\ [][NextBatch]_vars

(***************************************************************************)
(* Claims about the batch import and the deduplication (SpecBatch).        *)
(***************************************************************************)
\* the counts the last run returned
LastCounts == CHOOSE c \in last.resp.detail : TRUE

\* C3: no duplicate storage.  An import run on a table that holds at most
\* one row per value leaves a table that holds at most one row per value,
\* whatever the file and whatever it shares with the table, so a sequence
\* of imports from such a table never stores a value twice.
C3_ImportStoresNoDuplicate ==
    [][ \A k \in Kinds :
          (last'.op = "import" /\ last'.item_type = k /\ NoDuplicateValues(blocked[k]))
          => NoDuplicateValues(blocked'[k]) ]_vars

\* an import of a file that repeats a value and shares one with the table
\* added a row, on a store that does not enforce the unique constraint
C3_Witness ==
    /\ last.op = "import"
    /\ last.item_type = "domain"
    /\ ~uniqueValue
    /\ LastCounts.added = 1
    /\ LastCounts.skipped = 2
    /\ NoDuplicateValues(blocked["domain"])
    /\ {r.value : r \in blocked["domain"]} = {A_CO, B_CO}

\* the row of the lowest id among the rows of value v
LowestRows(rows, v) ==
    {r \in rows : r.value = v /\ \A x \in rows : x.value = v => r.id <= x.id}

\* C4: deduplication correctness.  A deduplication that completes without
\* error leaves, for every value the table held, exactly the row of that
\* value with the smallest id, and no other row.
C4_DedupKeepsLowestId ==
    [][ \A k \in Kinds :
          (last'.op = "dedup" /\ last'.item_type = k /\ last'.resp.raised = NoError)
          => /\ \A v \in {r.value : r \in blocked[k]} :
                   /\ {r \in blocked'[k] : r.value = v} = LowestRows(blocked[k], v)
                   /\ Cardinality(LowestRows(blocked[k], v)) = 1
             /\ blocked'[k] \subseteq blocked[k] ]_vars

\* a deduplication deleted the repeated rows of two values, one chunk each,
\* and left the rows with ids 1 and 2
C4_Witness ==
    /\ last.op = "dedup"
    /\ last.item_type = "domain"
    /\ last.resp.raised = NoError
    /\ LastCounts.deleted = 2
    /\ {r.id : r \in blocked["domain"]} = {1, 2}
    /\ {r.value : r \in blocked["domain"]} = {A_CO, B_CO}

\* the file of the given name
FileOf(name) == CHOOSE f \in Files : f.name = name

\* the values of the lines of the file that are valid candidates, one per
\* line and in file order
ValidCandidates(item_type, file) ==
    [i \in 1..Len(SelectSeq(file.lines,
                             LAMBDA l : FileLineValues[item_type][l] \notin {SkipLine, InvalidLine}))
       |-> FileLineValues[item_type][
              SelectSeq(file.lines,
                        LAMBDA l : FileLineValues[item_type][l] \notin {SkipLine, InvalidLine})[i]]]

\* the number of lines of the file that are neither skipped nor valid
InvalidCandidates(item_type, file) ==
    Len(SelectSeq(file.lines, LAMBDA l : FileLineValues[item_type][l] = InvalidLine))

\* C13: the counts of an import that completes partition the valid
\* candidate lines of the file: the lines that repeat an earlier value of
\* the file (skipped_dup_file), the distinct values the table already
\* holds (skipped_exists_db) and the distinct values it does not hold
\* (added, each stored as one new row).  The skipped count returned is the
\* sum of the first two and of the invalid lines.
C13_CountsPartitionValidLines ==
    [][ \A k \in Kinds :
          (last'.op = "import" /\ last'.item_type = k /\ last'.resp.raised = NoError)
          => LET file == FileOf(last'.value)
                 valid == ValidCandidates(k, file)
                 in_store == {r.value : r \in blocked[k]}
                 counts == CHOOSE c \in last'.resp.detail : TRUE
                 dup_in_file == Len(valid) - Cardinality(Range(valid))
                 existing == Cardinality(Range(valid) \cap in_store)
             IN  /\ FileReads[k][file].skipped_dup_file = dup_in_file
                 /\ counts.added = Cardinality(Range(valid) \ in_store)
                 /\ counts.skipped = dup_in_file + existing + InvalidCandidates(k, file)
                 /\ counts.errors = 0
                 /\ counts.added + existing + dup_in_file = Len(valid)
                 /\ Cardinality(blocked'[k]) = Cardinality(blocked[k]) + counts.added
                 /\ {r.value : r \in blocked'[k]} = in_store \cup Range(valid) ]_vars

\* an import of a file that holds one address twice, into a table that
\* already holds it, added nothing and skipped one repeat and one existing
C13_Witness ==
    /\ last.op = "import"
    /\ last.item_type = "email"
    /\ last.value = <<"f", "3">>
    /\ last.resp.raised = NoError
    /\ LastCounts.added = 0
    /\ LastCounts.skipped = 2
    /\ LastCounts.errors = 0
    /\ {r.value : r \in blocked["email"]} = {X_AT_A_CO}

\* C14: an import whose insert meets an integrity violation rolls the
\* failed chunk back and retries its members one by one, so that the run
\* ends without an error counted for them: a member that already exists
\* is counted as skipped, every other member as added.
C14_IntegrityViolationRetried ==
    [][ \A k \in Kinds :
          (last'.op = "import" /\ last'.item_type = k /\ last'.resp.raised = IntegrityError)
          => LET counts == CHOOSE c \in last'.resp.detail : TRUE
             IN  /\ counts.errors = 0
                 /\ counts.added + counts.skipped
                      = Len(FileOf(last'.value).lines)
                          - Len(SelectSeq(FileOf(last'.value).lines,
                                          LAMBDA l : FileLineValues[k][l] = SkipLine)) ]_vars

\* C15: an import of a file that names a value the table holds as an
\* inactive row sets that row active and extends its source with the tag
\* of the import, and adds no second row for the value.
C15_InactiveRowReactivated ==
    [][ \A k \in Kinds :
          (last'.op = "import" /\ last'.item_type = k /\ last'.resp.raised = NoError)
          => \A r \in blocked[k] :
                (r.status = "inactive" /\ r.value \in Range(ValidCandidates(k, FileOf(last'.value))))
                => /\ \E x \in blocked'[k] :
                         /\ x.id = r.id
                         /\ x.value = r.value
                         /\ x.status = "active"
                         /\ x.source # r.source
                   /\ Cardinality({x \in blocked'[k] : x.value = r.value})
                        = Cardinality({x \in blocked[k] : x.value = r.value}) ]_vars

\* C18: a deduplication in which the delete or the commit of a chunk fails
\* stops at that chunk and reports the number of rows that the chunks
\* committed before it deleted, as a result that is not a success.
C18_PartialCountReported ==
    [][ \A k \in Kinds :
          (last'.op = "dedup" /\ last'.item_type = k /\ last'.resp.raised # NoError)
          => /\ last'.resp.outcome = "failed"
             /\ \A c \in last'.resp.detail :
                   c.deleted = Cardinality(blocked[k]) - Cardinality(blocked'[k]) ]_vars

\* C24: every row an import adds has status active and a source that
\* names the file of the import; an import adds no row of another status
\* and changes no row the table held.
C24_ImportedRowsActiveAndTagged ==
    [][ \A k \in Kinds :
          (last'.op = "import" /\ last'.item_type = k)
          => /\ blocked[k] \subseteq blocked'[k]
             /\ \A r \in blocked'[k] \ blocked[k] :
                   /\ r.status = "active"
                   /\ Len(r.source) > Len(last'.value)
                   /\ SubSeq(r.source, Len(r.source) - Len(last'.value) + 1, Len(r.source))
                        = last'.value ]_vars

\* an import of the second file into a table with an inactive row of
\* another value added an active row whose source ends with the file name
C24_Witness ==
    /\ last.op = "import"
    /\ last.item_type = "domain"
    /\ last.value = <<"f", "2">>
    /\ LastCounts.added = 1
    /\ \E r \in blocked["domain"] : r.value = A_CO /\ r.status = "inactive"
    /\ \E r \in blocked["domain"] :
          r.value = B_CO /\ r.status = "active" /\ r.source = ImportSourceTag(FileOf(last.value))

\* C28: a deduplication that completes does not change the answer of
\* Check: every value of the table that Check answered with a status
\* before the run is answered with the same status after it.
C28_DedupLeavesCheckUnchanged ==
    [][ \A k \in Kinds :
          (last'.op = "dedup" /\ last'.item_type = k /\ last'.resp.raised = NoError)
          => \A v \in BatchValues[k] :
                CheckResponse(blocked, whitelist, k, v, "none").outcome # "error"
                => CheckResponse(blocked', whitelist', k, v, "none").outcome
                     = CheckResponse(blocked, whitelist, k, v, "none").outcome ]_vars

\* C29: the insert of an import is all or nothing: when the bulk insert
\* or its commit fails, the table is as it was before the run and holds
\* none of the new values of the file, and the run returns added = 0 and
\* errors = the number of rows it tried to insert.  (A failed existence
\* query raises too; it leaves the table as it was and counts every valid
\* value of the file.)
C29_FailedInsertStoresNothing ==
    [][ \A k \in Kinds :
          ( /\ last'.op = "import"
            /\ last'.item_type = k
            /\ last'.resp.raised \in {IntegrityError, SQLAlchemyError} )
          => LET valid == Range(ValidCandidates(k, FileOf(last'.value)))
                 new_values == valid \ {r.value : r \in blocked[k]}
                 counts == CHOOSE c \in last'.resp.detail : TRUE
             IN  /\ blocked'[k] = blocked[k]
                 /\ new_values \cap {r.value : r \in blocked'[k]} = {}
                 /\ counts.added = 0
                 /\ IF last'.resp.raised = IntegrityError
                    THEN counts.errors = Cardinality(new_values)
                    ELSE counts.errors \in {Cardinality(new_values), Cardinality(valid)} ]_vars

\* the insert of the two new values of the first file failed on the
\* constraint: nothing stored, two errors
C29_Witness ==
    /\ last.op = "import"
    /\ last.item_type = "domain"
    /\ last.value = <<"f", "1">>
    /\ last.resp.raised = IntegrityError
    /\ LastCounts.added = 0
    /\ LastCounts.errors = 2
    /\ blocked["domain"] = {}

(***************************************************************************)
(* The command line tool (SpecTool): one step is one run of the script,    *)
(* either "import <item_type> FILE..." or "deduplicate <item_type>", from  *)
(* the opening of the session to sys.exit, on the tables that earlier runs *)
(* left.  A run meets at most one failure: of the session, of one file's   *)
(* read, or of one store operation.                                        *)
(***************************************************************************)
MaxRunFiles == 2

MaxToolRows == 4

RunFaults == ImportFaults \cup {"read_error", "session_open", "session_close"}

\* lines 617-619: the counters and the table after one more file; the
\* first exception caught in the run is kept
AddFile(overall, result) ==
    BatchResult(result.rows, result.nextId,
                ImportCounts(overall.counts.added + result.counts.added,
                             overall.counts.skipped + result.counts.skipped,
                             overall.counts.errors + result.counts.errors),
                IF overall.raised # NoError THEN overall.raised ELSE result.raised)

\* a loop over the files that ends at the first file that is missing
RECURSIVE ImportFilesUntilMissing(_, _, _, _, _)
ImportFilesUntilMissing(overall, unique, item_type, files, faults) ==
    IF files = <<>> THEN overall
    ELSE IF ~Head(files).exists
    THEN [overall EXCEPT !.counts.errors = @ + 1]
    ELSE Bind(ImportResult(overall.rows, overall.nextId, unique, item_type,
                           Head(files), Head(faults)), LAMBDA result :
             ImportFilesUntilMissing(AddFile(overall, result), unique, item_type,
                                     Tail(files), Tail(faults)))

\* lines 604-631: the loop over the files of the command line; a path that
\* is not a file adds one error and the loop goes on
RECURSIVE ImportFiles(_, _, _, _, _)
ImportFiles(overall, unique, item_type, files, faults) ==
    IF files = <<>> THEN overall
    ELSE IF ~Head(files).exists
    THEN ImportFiles([overall EXCEPT !.counts.errors = @ + 1], unique, item_type,
                     Tail(files), Tail(faults))
    ELSE Bind(ImportResult(overall.rows, overall.nextId, unique, item_type,
                           Head(files), Head(faults)), LAMBDA result :
             ImportFiles(AddFile(overall, result), unique, item_type,
                         Tail(files), Tail(faults)))

\* an import command that always ends with 0
ImportExitCodeZero(overall_errors) == 0

\* lines 640-641
ImportExitCode(overall_errors) == IF overall_errors > 0 THEN 1 ELSE 0

\* lines 653-659
DedupExitCode(deleted_count) == IF deleted_count >= 0 THEN 0 ELSE 1

\* lines 674-683: a failure to close the session turns a 0 into a 1
CloseSession(exit_code, fault) ==
    IF fault = "session_close" /\ exit_code = 0 THEN 1 ELSE exit_code

\* what a run leaves to be seen: its exit code, its counters and the first
\* exception it caught
RunResponse(exit_code, counts, raised, fault) ==
    Response(exit_code, IF exit_code = 0 THEN "completed" ELSE "failed", {counts},
             IF raised # NoError THEN raised
             ELSE IF fault \in {"session_open", "session_close"} THEN SQLAlchemyError
             ELSE NoError)

\* the tables a run of the tool may start from
InitTool ==
    /\ uniqueValue \in BOOLEAN
    /\ \E kd \in 0..MaxToolRows :
          \E d \in TablesOf(BatchValues["domain"], {"active"}, kd) :
             /\ uniqueValue => NoDuplicateValues(d)
             /\ blocked = [domain |-> d, email |-> {}]
    /\ nextId = [k \in Kinds |-> NextIdOf(blocked[k])]
    /\ whitelist = {}
    /\ reports = {}
    /\ last = NoCall
    /\ pc = [p \in {"main"} |-> "start"]
    /\ req = [p \in {} |-> Idle]

\* lines 580-686, command import
MainImport ==
    \E k \in Kinds, n \in 1..MaxRunFiles, fault \in RunFaults :
      \E files \in [1..n -> Files], at \in 1..n :
        /\ pc["main"] = "start"
        /\ pc' = [pc EXCEPT !["main"] = "exit"]
        /\ fault \in {"none", "session_open", "session_close"} => at = 1
        /\ LET start == BatchResult(blocked[k], nextId[k], ImportCounts(0, 0, 0), NoError)
               result == IF fault = "session_open" THEN start
                         ELSE ImportFiles(start, uniqueValue, k, files,
                                          [i \in 1..n |-> IF i = at THEN fault ELSE "none"])
               exit_code == IF fault = "session_open" THEN 1
                            ELSE CloseSession(ImportExitCode(result.counts.errors), fault)
           IN  /\ blocked' = [blocked EXCEPT ![k] = result.rows]
               /\ nextId' = [nextId EXCEPT ![k] = result.nextId]
               /\ last' = [op |-> "main_import", item_type |-> k,
                           value |-> [i \in 1..n |-> files[i].name],
                           resp |-> RunResponse(exit_code, result.counts, result.raised, fault)]
               /\ UNCHANGED <<whitelist, reports, uniqueValue, req>>

\* lines 580-686, command deduplicate
MainDeduplicate ==
    \E k \in Kinds, fault \in DedupFaults \cup {"session_open", "session_close"} :
        \E duplicate_values \in Orders(DuplicateValues(blocked[k])) :
            \E fail_at \in 1..(IF fault = "delete" THEN NumChunks(duplicate_values) ELSE 1) :
                LET result == IF fault = "session_open"
                              THEN [rows |-> blocked[k], deleted |-> 0, raised |-> NoError]
                              ELSE RemoveResult(blocked[k], duplicate_values, fault, fail_at)
                    exit_code == IF fault = "session_open" THEN 1
                                 ELSE CloseSession(DedupExitCode(result.deleted), fault)
                IN  /\ pc["main"] = "start"
                    /\ pc' = [pc EXCEPT !["main"] = "exit"]
                    /\ blocked' = [blocked EXCEPT ![k] = result.rows]
                    /\ last' = [op |-> "main_dedup", item_type |-> k, value |-> duplicate_values,
                                resp |-> RunResponse(exit_code,
                                            [deleted |-> result.deleted,
                                             failed_chunk |-> IF fault = "delete" THEN fail_at ELSE 0],
                                            result.raised, fault)]
                    /\ UNCHANGED <<whitelist, reports, uniqueValue, req, nextId>>

NextTool == MainImport \/ MainDeduplicate

SpecTool == InitTool /\ [][NextTool]_vars

(***************************************************************************)
(* Claims about the runs of the tool (SpecTool).                           *)
(***************************************************************************)
\* C16: in an import of several files, a path that is not a file or a file
\* that cannot be read ends the processing of that file only and adds one
\* to the error count of the run; every other file of the run is still
\* read and the table holds its valid values when the run ends.
C16_MissingFileAbortsOnlyItself ==
    (last.op = "main_import" /\ last.resp.raised \in {NoError, IOError})
    => LET names == last.value
           missing == {i \in DOMAIN names : ~FileOf(names[i]).exists}
           Stored(i) == Range(ValidCandidates(last.item_type, FileOf(names[i])))
                           \subseteq {r.value : r \in blocked[last.item_type]}
       IN  /\ LastCounts.errors
                = Cardinality(missing) + (IF last.resp.raised = IOError THEN 1 ELSE 0)
           /\ IF last.resp.raised = NoError
              THEN \A i \in DOMAIN names \ missing : Stored(i)
              ELSE \E j \in DOMAIN names \ missing :
                      \A i \in DOMAIN names \ (missing \cup {j}) : Stored(i)

\* a run named a missing path first and a file with two new values second:
\* one error, two rows added
C16_Witness ==
    /\ last.op = "main_import"
    /\ last.item_type = "domain"
    /\ last.value = << <<"f", "4">>, <<"f", "1">> >>
    /\ last.resp.raised = NoError
    /\ LastCounts.errors = 1
    /\ LastCounts.added = 2
    /\ {A_CO, B_CO} \subseteq {r.value : r \in blocked["domain"]}

\* C17: a run of the tool exits with 0 exactly when no file, chunk or
\* store operation of the run failed: every path of an import was a file,
\* and no read, query, insert, delete, commit or session operation raised.
C17_ExitZeroIffNoError ==
    (last.op \in {"main_import", "main_dedup"})
    => ( last.resp.http = 0
         <=> /\ last.resp.raised = NoError
             /\ last.op = "main_import"
                  => \A i \in DOMAIN last.value : FileOf(last.value[i]).exists )

\* a run stored the values of its first file, failed on the second and
\* exited with 1
C17_Witness ==
    /\ last.op = "main_import"
    /\ last.item_type = "domain"
    /\ Len(last.value) = 2
    /\ last.resp.raised # NoError
    /\ LastCounts.added > 0
    /\ LastCounts.errors > 0
    /\ last.resp.http = 1

\* C19: the chunks of a deduplication are committed one by one: when the
\* delete of chunk n fails, the rows that chunks 1..n-1 deleted stay
\* deleted and every other row of the table, those chunk n was deleting
\* included, is still there.
C19_EarlierChunksStayDeleted ==
    [][ \A k \in Kinds :
          ( /\ last'.op = "main_dedup"
            /\ last'.item_type = k
            /\ \E c \in last'.resp.detail : c.failed_chunk >= 1 )
          => LET n == (CHOOSE c \in last'.resp.detail : TRUE).failed_chunk
                 committed == {last'.value[i] : i \in 1..((n - 1) * DEFAULT_CHUNK_SIZE)}
             IN  /\ last'.resp.raised = SQLAlchemyError
                 /\ blocked'[k] = {r \in blocked[k] :
                                      r.value \in committed => r \in LowestRows(blocked[k], r.value)} ]_vars

\* the second chunk of a deduplication failed after the first had deleted
\* a row; the value of the second chunk still has its repeated rows
C19_Witness ==
    /\ last.op = "main_dedup"
    /\ last.item_type = "domain"
    /\ \E c \in last.resp.detail : c.failed_chunk = 2
    /\ Cardinality(blocked["domain"]) = 3
    /\ nextId["domain"] = 5
    /\ DuplicateValues(blocked["domain"]) = {last.value[2]}

(***************************************************************************)
(* The two normalizers applied to their own results (SpecNormalize): the   *)
(* normalization of app.py and that of import_domains.py each take a raw   *)
(* text, normalize it, and normalize the result again.                     *)
(***************************************************************************)
MaxWww == 2

Normalizers == {"app", "import"}

\* n copies of the text
RECURSIVE Repeat(_, _)
Repeat(text, n) == IF n = 0 THEN <<>> ELSE text \o Repeat(text, n - 1)

\* the raw texts: a host or an address, behind up to MaxWww "www." and an
\* optional scheme, before an optional dot or path
NormalizeInputs ==
    { scheme \o Repeat(WwwDot, n) \o host \o tail :
        scheme \in {<<>>, HttpPrefix}, n \in 0..MaxWww,
        host \in {A_CO, A_CO_CAPITAL, X_AT_A_CO_CAPITAL},
        tail \in {<<>>, <<".">>, <<"/", "x">>} }

\* import_list, lines 299-313: the normalized value of a candidate
ImportNormalizeValue(item_type, value) ==
    IF item_type = "domain" THEN ImportNormalizeDomain(value)
    ELSE Bind(Lower(value), LAMBDA normalized_value :
             IF IsValidEmail(normalized_value) THEN normalized_value ELSE None)

NormalizeWith(normalizer, item_type, value) ==
    IF normalizer = "app" THEN NormalizeValue(item_type, value)
    ELSE ImportNormalizeValue(item_type, value)

InitNormalize ==
    /\ \E k \in Kinds, raw \in NormalizeInputs :
          req = [n \in Normalizers |->
                   [item_type |-> k, value |-> raw, key |-> None, resp |-> Idle.resp]]
    /\ pc = [n \in Normalizers |-> "raw"]
    /\ blocked = [k \in Kinds |-> {}]
    /\ nextId = [k \in Kinds |-> 1]
    /\ whitelist = {}
    /\ reports = {}
    /\ uniqueValue = FALSE
    /\ last = NoCall

\* the raw text is normalized
NormalizeRaw(n) ==
    /\ pc[n] = "raw"
    /\ pc' = [pc EXCEPT ![n] = "once"]
    /\ req' = [req EXCEPT ![n].key = NormalizeWith(n, req[n].item_type, req[n].value)]
    /\ UNCHANGED <<blocked, whitelist, reports, uniqueValue, last, nextId>>

\* the accepted result is normalized again; value keeps the result and key
\* takes the result of the result
NormalizeAgain(n) ==
    /\ pc[n] = "once"
    /\ req[n].key # None
    /\ pc' = [pc EXCEPT ![n] = "twice"]
    /\ req' = [req EXCEPT ![n].value = req[n].key,
                          ![n].key = NormalizeWith(n, req[n].item_type, req[n].key)]
    /\ UNCHANGED <<blocked, whitelist, reports, uniqueValue, last, nextId>>

NextNormalize == \E n \in Normalizers : NormalizeRaw(n) \/ NormalizeAgain(n)

SpecNormalize == InitNormalize /\ [][NextNormalize]_vars

\* C20: normalization is idempotent: for both normalizers and both kinds,
\* normalizing an accepted result gives that result again, also when the
\* raw text begins with "www." more than once.
C20_NormalizeIdempotent ==
    \A n \in DOMAIN pc : pc[n] = "twice" => req[n].key = req[n].value

\* C26: the domain normalizer of Check and Report and the domain
\* normalizer of Import agree on every raw text: both reject it, or both
\* return the same key.
C26_NormalizersAgree ==
    ( /\ DOMAIN pc = Normalizers
      /\ \A n \in Normalizers : pc[n] = "once" /\ req[n].item_type = "domain" )
    => req["app"].key = req["import"].key

(***************************************************************************)
(* The extraction of one line of a list (SpecExtract): import_list reads a *)
(* file of one line into an empty table.                                   *)
(***************************************************************************)
AdblockPrefix == <<"|", "|">>

\* the lines: a host, with or without the Adblock prefix, a wildcard or a
\* path, and an anchor or an option
ExtractLines ==
    { prefix \o wild \o host \o path \o anchor :
        prefix \in {<<>>, AdblockPrefix},
        wild \in {<<>>, <<"*", ".">>},
        host \in {A_CO, A_CO_CAPITAL, WWW_A_CO},
        path \in {<<>>, <<"/", "x">>, <<"/", "*">>},
        anchor \in {<<>>, <<"^">>, <<"$", "o">>} }

\* the file the line is read from
LineFile == [name |-> <<"l">>, exists |-> TRUE]

InitExtract ==
    /\ \E k \in Kinds, line \in ExtractLines :
          req = [p \in {"line"} |->
                   [item_type |-> k, value |-> line, key |-> None, resp |-> Idle.resp]]
    /\ pc = [p \in {"line"} |-> "read"]
    /\ blocked = [k \in Kinds |-> {}]
    /\ nextId = [k \in Kinds |-> 1]
    /\ whitelist = {}
    /\ reports = {}
    /\ uniqueValue = TRUE
    /\ last = NoCall

\* lines 270-409 for a file of one line: the line is extracted and
\* normalized, and a valid value is inserted
ExtractLine ==
    /\ pc["line"] = "read"
    /\ pc' = [pc EXCEPT !["line"] = "extracted"]
    /\ LET normalized_value == ImportLine(req["line"].item_type, req["line"].value)
       IN  /\ req' = [req EXCEPT !["line"].key = normalized_value]
           /\ IF normalized_value \in {SkipLine, InvalidLine}
              THEN UNCHANGED <<blocked, nextId>>
              ELSE /\ blocked' = [blocked EXCEPT ![req["line"].item_type] =
                                    ItemsToInsert(1, <<normalized_value>>, LineFile)]
                   /\ nextId' = [nextId EXCEPT ![req["line"].item_type] = 2]
    /\ UNCHANGED <<whitelist, reports, uniqueValue, last>>

NextExtract == ExtractLine

SpecExtract == InitExtract /\ [][NextExtract]_vars

\* C22: of the domain lines in Adblock form, "||host^" and "||host$option"
\* yield the host as a value, and a line that holds a wildcard or a path
\* character ("*" or "/") is discarded: no row is stored for it.
C22_AdblockExtraction ==
    \A p \in DOMAIN pc :
        ( /\ pc[p] = "extracted"
          /\ req[p].item_type = "domain"
          /\ StartsWith(req[p].value, AdblockPrefix) )
        => IF \E i \in 1..Len(req[p].value) : req[p].value[i] \in {"*", "/"}
           THEN blocked["domain"] = {}
           ELSE {r.value : r \in blocked["domain"]} = {A_CO}

(***************************************************************************)
(* Two runs of import_list on the same table at the same time              *)
(* (SpecImportRace).  Each run asks the table for its values chunk by      *)
(* chunk, then inserts the new ones and commits; the queries of one run    *)
(* and the insert of the other interleave.  req holds the local variables  *)
(* of each run.                                                            *)
(***************************************************************************)
Importers == {"i1", "i2"}

InitImportRace ==
    /\ uniqueValue \in BOOLEAN
    /\ \E k \in Kinds :
          /\ \E d \in TablesOf(BatchValues[k], BatchStatuses, 0) \cup
                       TablesOf(BatchValues[k], BatchStatuses, 1) :
                blocked = [x \in Kinds |-> IF x = k THEN d ELSE {}]
          /\ \E files \in [Importers -> {f \in Files : f.exists}] :
                req = [p \in Importers |->
                         [item_type |-> k, filename |-> files[p].name, i |-> 1,
                          existing_in_db |-> {}, added |-> 0, errors |-> 0]]
    /\ pc = [p \in Importers |-> "check"]
    /\ nextId = [k \in Kinds |-> NextIdOf(blocked[k])]
    /\ whitelist = {}
    /\ reports = {}
    /\ last = NoCall

\* lines 332-356: one chunk of the existence check
ImportCheckChunk(p) ==
    LET k == req[p].item_type
        valid == FileReads[k][FileOf(req[p].filename)].valid_items_to_check
    IN  /\ pc[p] = "check"
        /\ IF valid = <<>>
           THEN /\ pc' = [pc EXCEPT ![p] = "done"]
                /\ UNCHANGED req
           ELSE /\ req' = [req EXCEPT ![p].existing_in_db =
                                         @ \cup ({r.value : r \in blocked[k]}
                                                   \cap Range(ChunkAt(valid, req[p].i))),
                                      ![p].i = @ + 1]
                /\ pc' = [pc EXCEPT ![p] = IF req[p].i = NumChunks(valid)
                                           THEN "insert" ELSE "check"]
        /\ UNCHANGED <<blocked, whitelist, reports, uniqueValue, last, nextId>>

\* lines 365-409: the insert of the values not seen in the table, and the
\* commit or the rollback
ImportBulkInsert(p) ==
    LET k == req[p].item_type
        file == FileOf(req[p].filename)
        new_items == SelectSeq(FileReads[k][file].valid_items_to_check,
                               LAMBDA v : v \notin req[p].existing_in_db)
        result == IF new_items = <<>>
                  THEN BatchResult(blocked[k], nextId[k], ImportCounts(0, 0, 0), NoError)
                  ELSE BulkInsert(blocked[k], nextId[k], uniqueValue, new_items, file, 0, "none")
    IN  /\ pc[p] = "insert"
        /\ pc' = [pc EXCEPT ![p] = "done"]
        /\ blocked' = [blocked EXCEPT ![k] = result.rows]
        /\ nextId' = [nextId EXCEPT ![k] = result.nextId]
        /\ req' = [req EXCEPT ![p].added = result.counts.added,
                              ![p].errors = result.counts.errors]
        /\ UNCHANGED <<whitelist, reports, uniqueValue, last>>

NextImportRace == \E p \in Importers : ImportCheckChunk(p) \/ ImportBulkInsert(p)

SpecImportRace == InitImportRace /\ [][NextImportRace]_vars

\* C27: under every interleaving of two import runs of the same kind, on
\* a store that enforces uniqueness of the value column, no table ever
\* holds two rows of the same value.
C27_NoDuplicateUnderImportRace ==
    uniqueValue => \A k \in Kinds : NoDuplicateValues(blocked[k])

\* both runs saw a value as new; one inserted it and the store refused the
\* insert of the other
C27_Witness ==
    /\ uniqueValue
    /\ DOMAIN pc = Importers
    /\ \A p \in Importers : pc[p] = "done"
    /\ \E p, q \in Importers :
          /\ req[p].added > 0
          /\ req[q].errors > 0
          /\ req[q].added = 0

=============================================================================
